---- MODULE Spec2Model ----
\* Chat controller of quivr_api (modules/chat/controller/chat_routes.py):
\* the two question handlers, the chat CRUD handlers, and the collaborators
\* they call (usage gate, brain lookup, brain authorization, config resolver,
\* RAGService).  A handler is cut at its suspension points (await): the code
\* between two awaits of one asyncio task runs without interleaving.
EXTENDS Integers, Sequences, FiniteSets, TLC

VARIABLES models, brains, roles, env, usage, chats, req, response

vars == <<models, brains, roles, env, usage, chats, req, response>>

\* ---------------------------------------------------------------- bounds
NReq == 2          \* question requests in flight or finished
Quota == 1         \* billed questions a user may consume
NFragments == 2    \* fragments of one streamed answer
MaxHistory == 1    \* turns a chat may hold through the CRUD handlers

\* ---------------------------------------------------------------- values
None == "None"
Users == {"A", "B"}
Req == 1..NReq
ChatIds == {"c1", "c2"}
Targets == {None, "uuid-gpt-x", "b21", "b22", "b23", "b99"}
\* the user whose question requests are followed
Askers == {"A"}
Handlers == {"sync", "stream"}

NoModel == [name |-> None, ver |-> 0]
NoBrain == [brain_id |-> None, name |-> None, model |-> None]
NoConfig == [mode |-> None, model |-> None]
NoChat == [user_id |-> None, name |-> None, history |-> <<>>]

RoleEnum == {"Viewer", "Editor", "Owner"}
CHAT_WITH_LLM == "CHAT_LLM_CONFIG_PATH"
RAG == "BRAIN_CONFIG_PATH"
RetrievalConfigPathEnv == {CHAT_WITH_LLM, RAG}

\* ---------------------------------------------------------------- helpers
\* uuid_generator.generate_uuid_from_string: a deterministic identifier
\* derived from a name; never None.
generate_uuid_from_string(name) ==
    CASE name = "gpt-x" -> "uuid-gpt-x"
      [] name = "claude-y" -> "uuid-claude-y"
      [] OTHER -> "uuid-other"

\* a loop without the break: the last matching model wins
RECURSIVE LastMatch(_, _, _)
LastMatch(ms, brain_id, i) ==
    IF i > Len(ms) THEN NoModel
    ELSE LET rest == LastMatch(ms, brain_id, i + 1) IN
         IF rest # NoModel THEN rest
         ELSE IF brain_id = generate_uuid_from_string(ms[i].name) THEN ms[i]
         ELSE NoModel

\* for model in models: if brain_id == generate_uuid_from_string(model.name):
\*     model_to_use = model; break
RECURSIVE FirstMatch(_, _, _)
FirstMatch(ms, brain_id, i) ==
    IF i > Len(ms) THEN NoModel
    ELSE IF brain_id = generate_uuid_from_string(ms[i].name) THEN ms[i]
    ELSE FirstMatch(ms, brain_id, i + 1)

\* brain_service.get_brain_details(brain_id, user_id): the brain record, or
\* nothing when no brain has that id (an unset id matches no brain).
get_brain_details(brain_id, user_id) ==
    IF brain_id \in DOMAIN brains THEN brains[brain_id] ELSE NoBrain

\* validate_brain_authorization(brain_id, user_id, required_roles): passes
\* iff the user holds one of the required roles on the brain.
validate_brain_authorization(brain_id, user_id, required_roles) ==
    roles[<<user_id, brain_id>>] \in required_roles

validate_authorization_unchecked(user_id, brain_id) == TRUE

validate_authorization(user_id, brain_id) ==
    IF brain_id # None
    THEN validate_brain_authorization(brain_id, user_id, {"Viewer", "Editor", "Owner"})
    ELSE TRUE

RECURSIVE FindByName(_, _, _)
FindByName(ms, name, i) ==
    IF i > Len(ms) THEN NoModel
    ELSE IF ms[i].name = name THEN ms[i]
    ELSE FindByName(ms, name, i + 1)

\* check_and_update_user_usage(user, model_name, model_service): one atomic
\* increment-if-available.  Unknown model name: no model is returned and
\* nothing is consumed; quota exhausted: QuotaExceeded, nothing consumed;
\* otherwise the user's counter grows by one and the model is returned.
check_and_update_user_usage(user, model_name) ==
    LET m == FindByName(models, model_name, 1) IN
    IF m = NoModel THEN [kind |-> "none", model |-> NoModel, usage |-> usage]
    ELSE IF usage[user] >= Quota
         THEN [kind |-> "quota", model |-> NoModel, usage |-> usage]
    ELSE [kind |-> "ok", model |-> m,
          usage |-> [usage EXCEPT ![user] = @ + 1]]

\* get_config_file_path(config_path_env, current_path): the path named by the
\* mode's environment variable; ConfigurationMissing when it is unset.
get_config_file_path(config_path_env) ==
    IF env[config_path_env] THEN config_path_env ELSE None

\* load_and_merge_retrieval_configuration(config_file_path, sqlmodel): the
\* base file of the mode with the model's fields merged on top.
load_and_merge_retrieval_configuration(config_file_path, sqlmodel) ==
    [mode |-> config_file_path, model |-> sqlmodel.name]

\* RetrievalConfig.from_yaml(file_path): the base file as it is.
from_yaml(file_path) == [mode |-> file_path, model |-> "base"]

\* ---------------------------------------------------------------- state
IdleReq ==
    [handler |-> None, user |-> None, brain_id |-> None, chat_id |-> None,
     pc |-> "idle", route |-> None, model_to_use |-> NoModel,
     brain |-> NoBrain, model |-> NoModel, retrieval_config |-> NoConfig,
     status |-> 0, error |-> None, raised |-> None, trace |-> <<>>,
     consumed |-> 0, appended |-> 0, pulled |-> 0]

ModelLists ==
    { << [name |-> "gpt-x", ver |-> 1], [name |-> "claude-y", ver |-> 1] >>,
      << [name |-> "claude-y", ver |-> 1], [name |-> "gpt-x", ver |-> 1],
         [name |-> "gpt-x", ver |-> 2] >> }

\* b21: a brain on a known model; b22: a brain whose model is not a known
\* model; b23: a brain user A holds no role on; uuid-gpt-x: a brain whose id
\* equals a model's derived identifier.
InitBrains ==
    [b \in {"b21", "b22", "b23", "uuid-gpt-x"} |->
        [brain_id |-> b, name |-> b,
         model |-> IF b = "b22" THEN "retired-m" ELSE "claude-y"]]

InitRoles ==
    [p \in Users \X {"b21", "b22", "b23", "uuid-gpt-x", "b99"} |->
        CASE p = <<"A", "b21">> -> "Viewer"
          [] p = <<"A", "b22">> -> "Owner"
          [] p = <<"B", "b22">> -> "Editor"
          [] p = <<"B", "b23">> -> "Owner"
          [] OTHER -> None]

InitChats ==
    [c \in ChatIds |->
        CASE c = "c1" -> [user_id |-> "A", name |-> "n0", history |-> <<>>]
          [] OTHER -> [user_id |-> "B", name |-> "n0", history |-> <<"turn">>]]

NoResponse == [op |-> None, user |-> None, chat_id |-> None, owner |-> None,
               status |-> 0, body |-> <<>>]

Init ==
    /\ models \in ModelLists
    /\ brains = InitBrains
    /\ roles = InitRoles
    /\ env \in [RetrievalConfigPathEnv -> BOOLEAN]
    /\ usage = [u \in Users |-> 0]
    /\ chats = InitChats
    /\ req = [r \in Req |-> IdleReq]
    /\ response = NoResponse

\* ------------------------------------------------- question handlers
Fail(q, status, error) ==
    [q EXCEPT !.pc = "done", !.status = status, !.error = error]

\* the exceptions the setup and the generation raise
AssertionError == [type |-> "AssertionError", status_code |-> 0]
HTTPException(status_code) ==
    [type |-> "HTTPException", status_code |-> status_code]
ValueError == [type |-> "ValueError", status_code |-> 0]
ConfigurationMissing == [type |-> "ConfigurationMissing", status_code |-> 0]
GenerationFailure == [type |-> "Exception", status_code |-> 0]

\* an except clause that turns every exception into 422
except_clauses_catch_all(exc) == 422

\* except AssertionError: raise HTTPException(status_code=422, ...)
\* except HTTPException as e: raise e
\* anything else leaves the handler uncaught (server error)
except_clauses(exc) ==
    IF exc.type = "AssertionError" THEN 422
    ELSE IF exc.type = "HTTPException" THEN exc.status_code
    ELSE 500

\* exc is raised inside the handler's try block
Raise(q, exc, error) ==
    [Fail(q, except_clauses(exc), error) EXCEPT !.raised = exc.type]

Call(q, name) == [q EXCEPT !.trace = Append(@, name)]

\* RAGService(current_user, chat_id, brain, retrieval_config, ...): keeps the
\* configuration it is given; given none, it builds the RAG configuration of
\* the brain's model itself (ConfigResolver.buildConfig(RAG, model)).
RAGService(q, retrieval_config) ==
    IF retrieval_config # NoConfig
    THEN [Call(q, "RAGService") EXCEPT !.retrieval_config = retrieval_config]
    ELSE LET file_path == get_config_file_path(RAG) IN
         IF file_path = None
         THEN Raise(Call(q, "RAGService"), ConfigurationMissing,
                    "ConfigurationMissing")
         ELSE [Call(q, "RAGService") EXCEPT !.retrieval_config =
                 load_and_merge_retrieval_configuration(file_path, q.model)]

\* the record of one call of the usage gate in the request
Gated(q, g) ==
    [Call(q, "check_and_update_user_usage") EXCEPT
        !.consumed = @ + (IF g.kind = "ok" THEN 1 ELSE 0)]

\* a resolution that prefers a brain record over a model match
sync_resolve_brain_first(q) ==
    LET b == get_brain_details(q.brain_id, q.user)
        m == FirstMatch(models, q.brain_id, 1)
        q1 == [Call(q, "get_models") EXCEPT !.model_to_use = m]
    IN  IF b # NoBrain
        THEN [Call(q1, "get_brain_details") EXCEPT
                 !.route = "brain", !.brain = b, !.pc = "usage"]
        ELSE IF m # NoModel
        THEN [q1 EXCEPT !.route = "model", !.pc = "usage",
                        !.brain = [brain_id |-> q.brain_id, name |-> m.name,
                                   model |-> None]]
        ELSE Raise([Call(q1, "get_brain_details") EXCEPT !.route = "brain"],
                   AssertionError, "UnprocessableRequest")

\* create_question_handler, from the return of get_models to the call of
\* check_and_update_user_usage
sync_resolve(q) ==
    LET m == FirstMatch(models, q.brain_id, 1)
        q1 == [Call(q, "get_models") EXCEPT !.model_to_use = m]
    IN  IF m # NoModel
        THEN [q1 EXCEPT !.route = "model", !.pc = "usage",
                        !.brain = [brain_id |-> q.brain_id, name |-> m.name,
                                   model |-> None]]
        ELSE LET b == get_brain_details(q.brain_id, q.user)
                 q2 == [Call(q1, "get_brain_details") EXCEPT
                           !.route = "brain", !.brain = b]
             IN  IF b = NoBrain
                 THEN Raise(q2, AssertionError, "UnprocessableRequest")
                 ELSE [q2 EXCEPT !.pc = "usage"]

\* create_question_handler, brain path, from the return of
\* check_and_update_user_usage (g) to the call of generate_answer
sync_brain_path(q, g) ==
    LET q1 == [Gated(q, g) EXCEPT !.model = g.model] IN
    IF g.kind = "quota" THEN Raise(q1, HTTPException(429), "QuotaExceeded")
    ELSE IF g.model = NoModel
         THEN Raise(q1, AssertionError, "UnprocessableRequest")
    ELSE LET q2 == Call([q1 EXCEPT !.brain.model = g.model.name],
                        "validate_authorization") IN
         IF ~validate_authorization(q.user, q.brain_id)
         THEN Raise(q2, HTTPException(403), "Forbidden")
         ELSE LET q3 == RAGService(q2, NoConfig) IN
              IF q3.pc = "done" THEN q3
              ELSE [Call(q3, "generate_answer") EXCEPT !.pc = "generating"]

\* a model-direct path that never calls the usage gate
sync_model_path_ungated(q, g) ==
    IF ~env[CHAT_WITH_LLM]
    THEN Raise(Call(q, "getenv"), ValueError, "ConfigurationMissing")
    ELSE LET q2 == RAGService(Call(Call(q, "getenv"), "from_yaml"),
                              from_yaml(CHAT_WITH_LLM)) IN
         [Call(q2, "generate_answer") EXCEPT !.pc = "generating"]

\* a model-direct path that does not look at CHAT_LLM_CONFIG_PATH
sync_model_path_unchecked(q, g) ==
    LET q1 == Gated(q, g) IN
    IF g.kind = "quota" THEN Raise(q1, HTTPException(429), "QuotaExceeded")
    ELSE LET q2 == RAGService(Call(Call(q1, "getenv"), "from_yaml"),
                              from_yaml(CHAT_WITH_LLM)) IN
         [Call(q2, "generate_answer") EXCEPT !.pc = "generating"]

\* create_question_handler, model-direct path, same span
sync_model_path(q, g) ==
    LET q1 == Gated(q, g) IN
    IF g.kind = "quota" THEN Raise(q1, HTTPException(429), "QuotaExceeded")
    ELSE IF ~env[CHAT_WITH_LLM]
         THEN Raise(Call(q1, "getenv"), ValueError, "ConfigurationMissing")
    ELSE LET q2 == RAGService(Call(Call(q1, "getenv"), "from_yaml"),
                              from_yaml(CHAT_WITH_LLM)) IN
         [Call(q2, "generate_answer") EXCEPT !.pc = "generating"]

\* a streaming resolution without the assertion on brain_id
stream_resolve_unasserted(q) ==
    LET m == FirstMatch(models, q.brain_id, 1)
        q1 == [Call(q, "get_models") EXCEPT !.model_to_use = m]
    IN  IF m # NoModel
        THEN [q1 EXCEPT !.route = "model", !.pc = "usage",
                        !.brain = [brain_id |-> None, name |-> m.name,
                                   model |-> None]]
        ELSE LET b == get_brain_details(q.brain_id, q.user)
                 q2 == [Call(q1, "get_brain_details") EXCEPT
                           !.route = "brain", !.brain = b]
             IN  IF b = NoBrain
                 THEN Raise(q2, AssertionError, "UnprocessableRequest")
                 ELSE [q2 EXCEPT !.pc = "usage"]

\* create_stream_question_handler, from the return of get_models to the call
\* of check_and_update_user_usage
stream_resolve(q) ==
    LET m == FirstMatch(models, q.brain_id, 1)
        q1 == [Call(q, "get_models") EXCEPT !.model_to_use = m]
    IN  IF m # NoModel
        THEN [q1 EXCEPT !.route = "model", !.pc = "usage",
                        !.brain = [brain_id |-> None, name |-> m.name,
                                   model |-> None]]
        ELSE IF q.brain_id = None
        THEN Raise([q1 EXCEPT !.route = "brain"], AssertionError,
                   "UnprocessableRequest")
        ELSE LET b == get_brain_details(q.brain_id, q.user)
                 q2 == [Call(q1, "get_brain_details") EXCEPT
                           !.route = "brain", !.brain = b]
             IN  IF b = NoBrain
                 THEN Raise(q2, AssertionError, "UnprocessableRequest")
                 ELSE [q2 EXCEPT !.pc = "usage"]

\* a service construction that goes on without a configuration file
stream_service_unchecked(q, mode, sqlmodel) ==
    LET q2 == RAGService(
                 Call(Call(q, "get_config_file_path"),
                      "load_and_merge_retrieval_configuration"),
                 load_and_merge_retrieval_configuration(mode, sqlmodel))
    IN [Call(q2, "generate_answer_stream") EXCEPT
           !.pc = "streaming", !.status = 200]

\* get_config_file_path + load_and_merge_retrieval_configuration + RAGService
\* + StreamingResponse(service.generate_answer_stream(...))
stream_service(q, mode, sqlmodel) ==
    LET file_path == get_config_file_path(mode)
        q1 == Call(q, "get_config_file_path")
    IN  IF file_path = None
        THEN Raise(q1, ConfigurationMissing, "ConfigurationMissing")
        ELSE LET q2 == RAGService(
                     Call(q1, "load_and_merge_retrieval_configuration"),
                     load_and_merge_retrieval_configuration(file_path, sqlmodel))
             IN [Call(q2, "generate_answer_stream") EXCEPT
                    !.pc = "streaming", !.status = 200]

\* create_stream_question_handler, brain path, from the return of
\* check_and_update_user_usage (g) to the return of the StreamingResponse
stream_brain_path(q, g) ==
    LET q1 == [Gated(q, g) EXCEPT !.model = g.model] IN
    IF g.kind = "quota" THEN Raise(q1, HTTPException(429), "QuotaExceeded")
    ELSE IF g.model = NoModel
         THEN Raise(q1, AssertionError, "UnprocessableRequest")
    ELSE LET q2 == Call([q1 EXCEPT !.brain.model = g.model.name],
                        "validate_authorization") IN
         IF ~validate_authorization(q.user, q.brain_id)
         THEN Raise(q2, HTTPException(403), "Forbidden")
         ELSE stream_service(q2, RAG, g.model)

\* a model-direct path that goes on after the gate rejected the request
stream_model_path_ignoring_quota(q, g) ==
    stream_service(Gated(q, g), CHAT_WITH_LLM, q.model_to_use)

\* create_stream_question_handler, model-direct path, same span
stream_model_path(q, g) ==
    LET q1 == Gated(q, g) IN
    IF g.kind = "quota" THEN Raise(q1, HTTPException(429), "QuotaExceeded")
    ELSE stream_service(q1, CHAT_WITH_LLM, q.model_to_use)

\* the model name each path hands to the usage gate
GateName(q) == IF q.route = "brain" THEN q.brain.model ELSE q.model_to_use.name

Started(r) == req[r].pc # "idle"

\* a question request arrives (POST /chat/{chat_id}/question[/stream]) from
\* user u for target b on one of u's chats; nothing is shared before the
\* return of get_models, so arrival and resolution are one step
Arrive(r, u, c) ==
    /\ req[r].pc = "idle"
    /\ \A p \in Req : p < r => Started(p)
    /\ chats[c].user_id = u

SyncResolve(r, u, b, c) ==
    /\ Arrive(r, u, c)
    /\ req' = [req EXCEPT ![r] = sync_resolve(
                  [IdleReq EXCEPT !.handler = "sync", !.user = u,
                                  !.brain_id = b, !.chat_id = c])]
    /\ UNCHANGED <<models, brains, roles, env, usage, chats, response>>

StreamResolve(r, u, b, c) ==
    /\ Arrive(r, u, c)
    /\ req' = [req EXCEPT ![r] = stream_resolve(
                  [IdleReq EXCEPT !.handler = "stream", !.user = u,
                                  !.brain_id = b, !.chat_id = c])]
    /\ UNCHANGED <<models, brains, roles, env, usage, chats, response>>

SyncBrainGate(r) ==
    /\ req[r].pc = "usage" /\ req[r].handler = "sync" /\ req[r].route = "brain"
    /\ LET g == check_and_update_user_usage(req[r].user, GateName(req[r])) IN
         /\ usage' = g.usage
         /\ req' = [req EXCEPT ![r] = sync_brain_path(req[r], g)]
    /\ UNCHANGED <<models, brains, roles, env, chats, response>>

\* a model-direct gate step that gives the unit back when setup then fails
SyncModelGate_refund(r) ==
    /\ req[r].pc = "usage" /\ req[r].handler = "sync" /\ req[r].route = "model"
    /\ LET g == check_and_update_user_usage(req[r].user, GateName(req[r]))
           q == sync_model_path(req[r], g)
       IN /\ usage' = IF q.pc = "done" THEN usage ELSE g.usage
          /\ req' = [req EXCEPT ![r] = q]
    /\ UNCHANGED <<models, brains, roles, env, chats, response>>

SyncModelGate(r) ==
    /\ req[r].pc = "usage" /\ req[r].handler = "sync" /\ req[r].route = "model"
    /\ LET g == check_and_update_user_usage(req[r].user, GateName(req[r])) IN
         /\ usage' = g.usage
         /\ req' = [req EXCEPT ![r] = sync_model_path(req[r], g)]
    /\ UNCHANGED <<models, brains, roles, env, chats, response>>

StreamBrainGate(r) ==
    /\ req[r].pc = "usage" /\ req[r].handler = "stream" /\ req[r].route = "brain"
    /\ LET g == check_and_update_user_usage(req[r].user, GateName(req[r])) IN
         /\ usage' = g.usage
         /\ req' = [req EXCEPT ![r] = stream_brain_path(req[r], g)]
    /\ UNCHANGED <<models, brains, roles, env, chats, response>>

StreamModelGate(r) ==
    /\ req[r].pc = "usage" /\ req[r].handler = "stream" /\ req[r].route = "model"
    /\ LET g == check_and_update_user_usage(req[r].user, GateName(req[r])) IN
         /\ usage' = g.usage
         /\ req' = [req EXCEPT ![r] = stream_model_path(req[r], g)]
    /\ UNCHANGED <<models, brains, roles, env, chats, response>>

\* the turn is appended to the chat's history
AppendTurn(c) == [chats EXCEPT ![c].history = Append(@, "turn")]

\* service.generate_answer returns: the answer (the turn is appended and the
\* answer returned), an AssertionError (422), or any other failure.
SyncAnswer(r) ==
    /\ req[r].pc = "generating"
    /\ \E outcome \in {"answer", "AssertionError", "GenerationFailure"} :
         CASE outcome = "answer" ->
                /\ chats' = AppendTurn(req[r].chat_id)
                /\ req' = [req EXCEPT ![r] = [@ EXCEPT !.pc = "done",
                              !.status = 200, !.appended = @ + 1]]
           [] outcome = "AssertionError" ->
                /\ req' = [req EXCEPT ![r] =
                              Raise(@, AssertionError, "UnprocessableRequest")]
                /\ UNCHANGED chats
           [] OTHER ->
                /\ req' = [req EXCEPT ![r] =
                              Raise(@, GenerationFailure, "GenerationFailure")]
                /\ UNCHANGED chats
    /\ UNCHANGED <<models, brains, roles, env, usage, response>>

\* a final fragment that appends the turn and leaves the stream open
StreamPull_unclosed(r) ==
    /\ req[r].pc = "streaming" /\ req[r].pulled < NFragments
    /\ IF req[r].pulled + 1 = NFragments
       THEN /\ chats' = AppendTurn(req[r].chat_id)
            /\ req' = [req EXCEPT ![r] = [@ EXCEPT !.pulled = @ + 1,
                          !.appended = @ + 1]]
       ELSE /\ req' = [req EXCEPT ![r].pulled = @ + 1]
            /\ UNCHANGED chats
    /\ UNCHANGED <<models, brains, roles, env, usage, response>>

\* the consumer reads one more fragment of the stream; the final fragment
\* appends the turn
StreamPull(r) ==
    /\ req[r].pc = "streaming" /\ req[r].pulled < NFragments
    /\ IF req[r].pulled + 1 = NFragments
       THEN /\ chats' = AppendTurn(req[r].chat_id)
            /\ req' = [req EXCEPT ![r] = [@ EXCEPT !.pulled = @ + 1,
                          !.appended = @ + 1, !.pc = "done"]]
       ELSE /\ req' = [req EXCEPT ![r].pulled = @ + 1]
            /\ UNCHANGED chats
    /\ UNCHANGED <<models, brains, roles, env, usage, response>>

\* the consumer disconnects before the final fragment: generation stops; the
\* partial turn is recorded best-effort
StreamCancel(r) ==
    /\ req[r].pc = "streaming"
    /\ \E saved \in BOOLEAN :
         /\ chats' = IF saved THEN AppendTurn(req[r].chat_id) ELSE chats
         /\ req' = [req EXCEPT ![r] = [@ EXCEPT !.pc = "done",
                       !.error = "Cancelled",
                       !.appended = @ + (IF saved THEN 1 ELSE 0)]]
    /\ UNCHANGED <<models, brains, roles, env, usage, response>>

\* generation fails mid-stream: the stream ends with an error event
StreamError(r) ==
    /\ req[r].pc = "streaming"
    /\ req' = [req EXCEPT ![r] = [@ EXCEPT !.pc = "done",
                  !.error = "GenerationFailure"]]
    /\ UNCHANGED <<models, brains, roles, env, usage, chats, response>>

Next ==
    \/ \E r \in Req, u \in Askers, b \in Targets, c \in ChatIds :
          SyncResolve(r, u, b, c)
    \/ \E r \in Req, u \in Askers, b \in Targets, c \in ChatIds :
          StreamResolve(r, u, b, c)
    \/ \E r \in Req : SyncBrainGate(r)
    \/ \E r \in Req : SyncModelGate(r)
    \/ \E r \in Req : StreamBrainGate(r)
    \/ \E r \in Req : StreamModelGate(r)
    \/ \E r \in Req : SyncAnswer(r)
    \/ \E r \in Req : StreamPull(r)
    \/ \E r \in Req : StreamCancel(r)
    \/ \E r \in Req : StreamError(r)

Spec == Init /\ [][Next]_vars

\* ------------------------------------------------- chat handlers
Reply(op, u, c, status, body) ==
    [op |-> op, user |-> u, chat_id |-> c, owner |-> chats[c].user_id,
     status |-> status, body |-> body]

\* POST /chat: chat_service.create_chat(user_id=current_user.id, ...)
create_chat_handler(u, c) ==
    /\ chats[c] = NoChat
    /\ chats' = [chats EXCEPT ![c] =
                    [user_id |-> u, name |-> "n0", history |-> <<>>]]
    /\ response' = Reply("create_chat", u, c, 200, <<>>)
    /\ UNCHANGED <<models, brains, roles, env, usage, req>>

\* DELETE /chat/{chat_id}: chat_service.delete_chat_from_db(chat_id)
delete_chat(u, c) ==
    /\ chats[c] # NoChat
    /\ chats' = [chats EXCEPT ![c] = NoChat]
    /\ response' = Reply("delete_chat", u, c, 200, <<>>)
    /\ UNCHANGED <<models, brains, roles, env, usage, req>>

\* PUT /chat/{chat_id}/metadata
update_chat_metadata_handler(u, c, name) ==
    /\ chats[c] # NoChat
    /\ IF u # chats[c].user_id
       THEN /\ response' = Reply("update_chat_metadata", u, c, 403, <<>>)
            /\ UNCHANGED chats
       ELSE /\ chats' = [chats EXCEPT ![c].name = name]
            /\ response' = Reply("update_chat_metadata", u, c, 200, <<>>)
    /\ UNCHANGED <<models, brains, roles, env, usage, req>>

\* PUT /chat/{chat_id}/{message_id}
update_chat_message(u, c, message_id) ==
    /\ chats[c] # NoChat
    /\ message_id \in 1..Len(chats[c].history)
    /\ IF u # chats[c].user_id
       THEN /\ response' = Reply("update_chat_message", u, c, 403, <<>>)
            /\ UNCHANGED chats
       ELSE /\ chats' = [chats EXCEPT ![c].history[message_id] = "edited"]
            /\ response' = Reply("update_chat_message", u, c, 200, <<>>)
    /\ UNCHANGED <<models, brains, roles, env, usage, req>>

\* GET /chat/{chat_id}/history:
\* chat_service.get_chat_history_with_notifications(chat_id)
get_chat_history_handler(u, c) ==
    /\ chats[c] # NoChat
    /\ response' = Reply("get_chat_history", u, c, 200, chats[c].history)
    /\ UNCHANGED <<models, brains, roles, env, usage, chats, req>>

\* a direct append that bills the caller as a generated answer would
add_question_and_answer_handler_billed(u, c) ==
    /\ chats[c] # NoChat
    /\ Len(chats[c].history) < MaxHistory
    /\ usage[u] < Quota
    /\ chats' = [chats EXCEPT ![c].history = Append(@, "qa")]
    /\ usage' = [usage EXCEPT ![u] = @ + 1]
    /\ response' = Reply("add_question_and_answer", u, c, 200, <<>>)
    /\ UNCHANGED <<models, brains, roles, env, req>>

\* POST /chat/{chat_id}/question/answer:
\* chat_service.add_question_and_answer(chat_id, question_and_answer)
add_question_and_answer_handler(u, c) ==
    /\ chats[c] # NoChat
    /\ Len(chats[c].history) < MaxHistory
    /\ chats' = [chats EXCEPT ![c].history = Append(@, "qa")]
    /\ response' = Reply("add_question_and_answer", u, c, 200, <<>>)
    /\ UNCHANGED <<models, brains, roles, env, usage, req>>

ChatNext ==
    \/ \E u \in Users, c \in ChatIds : create_chat_handler(u, c)
    \/ \E u \in Users, c \in ChatIds : delete_chat(u, c)
    \/ \E u \in Users, c \in ChatIds, name \in {"n0", "n1"} :
          update_chat_metadata_handler(u, c, name)
    \/ \E u \in Users, c \in ChatIds, i \in 1..MaxHistory :
          update_chat_message(u, c, i)
    \/ \E u \in Users, c \in ChatIds : get_chat_history_handler(u, c)
    \/ \E u \in Users, c \in ChatIds : add_question_and_answer_handler(u, c)

\* the chat handlers read neither the model list nor the environment
ChatInit ==
    /\ Init
    /\ Len(models) = 2
    /\ \A e \in RetrievalConfigPathEnv : env[e]

ChatSpec == ChatInit /\ [][ChatNext]_vars

\* ------------------------------------------------- properties
RECURSIVE PosFrom(_, _, _)
PosFrom(t, name, i) ==
    IF i > Len(t) THEN 0
    ELSE IF t[i] = name THEN i
    ELSE PosFrom(t, name, i + 1)

\* index of the first call of name in the trace, 0 when it was never called
Pos(t, name) == PosFrom(t, name, 1)
Has(t, name) == Pos(t, name) > 0
Count(t, name) == Cardinality({i \in 1..Len(t) : t[i] = name})

GATE == "check_and_update_user_usage"
AUTHZ == "validate_authorization"
LOOKUP == "get_brain_details"
ConfigCalls == {"getenv", "from_yaml", "get_config_file_path",
                "load_and_merge_retrieval_configuration", "RAGService"}
GenerationCalls == {"generate_answer", "generate_answer_stream"}

GenerationCalled(q) == \E i \in 1..Len(q.trace) : q.trace[i] \in GenerationCalls
GenerationPos(q) ==
    IF Has(q.trace, "generate_answer") THEN Pos(q.trace, "generate_answer")
    ELSE Pos(q.trace, "generate_answer_stream")

MatchesModel(brain_id) ==
    \E i \in 1..Len(models) : brain_id = generate_uuid_from_string(models[i].name)
HasRole(u, b) == b # None /\ roles[<<u, b>>] \in RoleEnum
ModeOf(q) == IF q.route = "model" THEN CHAT_WITH_LLM ELSE RAG
\* the request has run its setup to the generation call or to its failure
PastGate(q) == q.pc \notin {"idle", "usage"}

\* C1: in both question handlers the setup steps run in the strict order
\* Resolving -> Authorizing -> Gating -> ConfigBuilding; on the brain path
\* validate_authorization completes before check_and_update_user_usage is
\* called.
C1_StrictOrder ==
    \A r \in Req :
        LET t == req[r].trace IN
        /\ (req[r].route = "brain" /\ Has(t, GATE)) =>
              (Has(t, AUTHZ) /\ Pos(t, AUTHZ) < Pos(t, GATE))
        /\ \A i \in 1..Len(t) :
              t[i] \in ConfigCalls => (Has(t, GATE) /\ Pos(t, GATE) < i)

\* C2: the usage gate is invoked exactly once by a request whose target
\* resolved, before any generation call, and never when resolution fails.
C2_GateOnceBeforeGeneration ==
    \A r \in Req :
        LET q == req[r]
            resolved == MatchesModel(q.brain_id) \/ q.brain_id \in DOMAIN brains
        IN  /\ Count(q.trace, GATE) <= 1
            /\ q.consumed <= Count(q.trace, GATE)
            /\ (PastGate(q) /\ resolved) => Count(q.trace, GATE) = 1
            /\ (PastGate(q) /\ ~resolved) =>
                  (Count(q.trace, GATE) = 0 /\ q.status = 422)
            /\ GenerationCalled(q) =>
                  (Has(q.trace, GATE) /\ Pos(q.trace, GATE) < GenerationPos(q)
                   /\ q.consumed = 1)

C2_Witness ==
    \E r \in Req : GenerationCalled(req[r]) /\ req[r].consumed = 1
                   /\ req[r].route = "model" /\ req[r].handler = "sync"

\* C3: a request rejected as Forbidden (no Viewer/Editor/Owner role on the
\* brain) leaves the user's usage unchanged and never starts generation.
C3_ForbiddenNotBilled ==
    \A r \in Req :
        req[r].error = "Forbidden" =>
            (req[r].consumed = 0 /\ ~GenerationCalled(req[r]))

\* C4: routing is exclusive and decided by the model match: a brain_id equal
\* to a known model's derived identifier takes the model-direct path with no
\* brain lookup and no authorization gate; any other takes the brain path and
\* fails with 422 when no brain record exists; no request runs both paths.
C4_RoutingExclusive ==
    \A r \in Req :
        LET q == req[r] IN
        Started(r) =>
            /\ MatchesModel(q.brain_id) =>
                  /\ q.route = "model"
                  /\ ~Has(q.trace, LOOKUP) /\ ~Has(q.trace, AUTHZ)
                  /\ q.retrieval_config.mode \in {None, CHAT_WITH_LLM}
            /\ ~MatchesModel(q.brain_id) =>
                  /\ q.route = "brain"
                  /\ q.retrieval_config.mode \in {None, RAG}
                  /\ ~Has(q.trace, "from_yaml") /\ ~Has(q.trace, "getenv")
                  /\ q.brain_id \notin DOMAIN brains =>
                        (q.pc = "done" /\ q.status = 422
                         /\ ~Has(q.trace, GATE) /\ ~GenerationCalled(q))

C4_Witness ==
    \E r \in Req : /\ req[r].brain_id \in DOMAIN brains
                   /\ MatchesModel(req[r].brain_id)
                   /\ req[r].route = "model"
                   /\ GenerationCalled(req[r])

\* C5: on the brain path a generation call implies an earlier successful
\* validate_authorization(user, brain_id), itself after get_brain_details.
C5_BrainGenerationAuthorized ==
    \A r \in Req :
        LET q == req[r] IN
        (q.route = "brain" /\ GenerationCalled(q)) =>
            /\ Has(q.trace, LOOKUP) /\ Has(q.trace, AUTHZ)
            /\ Pos(q.trace, LOOKUP) < Pos(q.trace, AUTHZ)
            /\ Pos(q.trace, AUTHZ) < GenerationPos(q)
            /\ HasRole(q.user, q.brain_id)

C5_Witness ==
    \E r \in Req : /\ req[r].route = "brain" /\ GenerationCalled(req[r])
                   /\ HasRole(req[r].user, req[r].brain_id)

\* the setup of handler h for user u and target b in the current state
Setup(h, u, b) ==
    LET q0 == [IdleReq EXCEPT !.handler = h, !.user = u, !.brain_id = b]
        q1 == IF h = "sync" THEN sync_resolve(q0) ELSE stream_resolve(q0)
        g  == check_and_update_user_usage(u, GateName(q1))
    IN  IF q1.pc = "done" THEN q1
        ELSE IF h = "sync"
        THEN (IF q1.route = "brain" THEN sync_brain_path(q1, g)
                                    ELSE sync_model_path(q1, g))
        ELSE (IF q1.route = "brain" THEN stream_brain_path(q1, g)
                                    ELSE stream_model_path(q1, g))

\* what the claim compares: routing decision, gates in call order, effective
\* configuration, and outcome of setup
SetupView(q) ==
    [route |-> q.route,
     gates |-> SelectSeq(q.trace, LAMBDA x : x \in {GATE, AUTHZ}),
     retrieval_config |-> q.retrieval_config,
     outcome |-> IF GenerationCalled(q) THEN "proceed" ELSE q.error]

\* C6: for the same user, brain_id, model list, brain records and
\* environment the synchronous and the streaming handler take the same
\* routing decision, call the same gates in the same order, build the same
\* effective configuration and end setup with the same outcome.
C6_IdenticalSetup ==
    \A u \in Askers, b \in Targets :
        SetupView(Setup("sync", u, b)) = SetupView(Setup("stream", u, b))

\* C7: a chat's history is returned only to the chat's owner; a request by
\* another user fails with Forbidden and returns no chat data.
C7_HistoryOwnerOnly ==
    (response.op = "get_chat_history" /\ response.user # response.owner) =>
        (response.status = 403 /\ response.body = <<>>)

\* C8: an operation by a user who is not the chat's owner leaves the chat
\* unchanged and fails with 403, and no operation changes a chat's user_id.
C8_OnlyOwnerMutates ==
    [][\A c \in ChatIds :
          chats[c] # NoChat =>
             /\ response'.user # chats[c].user_id =>
                   /\ chats'[c] = chats[c]
                   /\ (response'.chat_id = c /\ response'.op \in
                         {"update_chat_metadata", "update_chat_message",
                          "add_question_and_answer", "delete_chat"})
                        => response'.status = 403
             /\ chats'[c] # NoChat => chats'[c].user_id = chats[c].user_id]_vars

\* the causes of a setup failure, read from the request's inputs and the
\* environment rather than from the handler's answer
ResolutionFails(q) == ~MatchesModel(q.brain_id) /\ q.brain_id \notin DOMAIN brains
UsageFails(q) == Has(q.trace, GATE) /\ q.consumed = 0
AuthorizationFails(q) == q.route = "brain" /\ ~HasRole(q.user, q.brain_id)
ConfigFails(q) == ~env[ModeOf(q)]
SetupFails(q) ==
    \/ q.pc # "idle" /\ ResolutionFails(q)
    \/ PastGate(q) /\ (UsageFails(q) \/ AuthorizationFails(q) \/ ConfigFails(q))

C11_ConfigMatchesRoute ==
    \A r \in Req :
        LET q == req[r] IN
        GenerationCalled(q) =>
            /\ q.route = "model" =>
                  q.retrieval_config = [mode |-> CHAT_WITH_LLM,
                                        model |-> q.model_to_use.name]
            /\ q.route = "brain" =>
                  /\ q.retrieval_config = [mode |-> RAG, model |-> q.brain.model]
                  /\ q.model # NoModel /\ q.brain.model = q.model.name

\* C12: resolution yields the first model in list order whose derived
\* identifier equals the request's brain_id, no model when none matches, and
\* changes no usage, brain, model or chat state.
C12_FirstMatchNoSideEffect ==
    [][\A r \in Req :
          (req[r].pc = "idle" /\ req'[r].pc # "idle") =>
             LET b == req'[r].brain_id
                 m == req'[r].model_to_use
             IN  /\ ~MatchesModel(b) => m = NoModel
                 /\ MatchesModel(b) =>
                       \E i \in 1..Len(models) :
                          /\ models[i] = m
                          /\ b = generate_uuid_from_string(models[i].name)
                          /\ \A j \in 1..(i - 1) :
                                b # generate_uuid_from_string(models[j].name)
                 /\ usage' = usage /\ brains' = brains /\ roles' = roles
                 /\ models' = models /\ chats' = chats]_vars

C12_Witness ==
    \E r \in Req : /\ Len(models) = 3
                   /\ models[2].name = models[3].name
                   /\ req[r].model_to_use = models[2]

\* C13: a request whose brain_id is unset never fails authorization and
\* performs no brain lookup anywhere in the request.
C13_UnsetTargetNoLookup ==
    \A r \in Req :
        (Started(r) /\ req[r].brain_id = None) =>
            /\ req[r].error # "Forbidden" /\ req[r].status # 403
            /\ ~Has(req[r].trace, LOOKUP)

RECURSIVE SumOver(_, _, _, _)
\* the sum of field f ("consumed" or "appended") over requests i..NReq of rq
\* that satisfy keep
SumOver(rq, f, keep(_), i) ==
    IF i > NReq THEN 0
    ELSE (IF keep(rq[i]) THEN rq[i][f] ELSE 0) + SumOver(rq, f, keep, i + 1)

ConsumedBy(rq, u) == SumOver(rq, "consumed", LAMBDA q : q.user = u, 1)
AppendedTo(rq, c) == SumOver(rq, "appended", LAMBDA q : q.chat_id = c, 1)

\* C14: usage consumption is final: once the gate succeeded for a request no
\* later step (authorization, configuration or generation failure, consumer
\* cancelling the stream) gives the unit back, and no step consumes a second
\* unit for the same request.
C14_UsageFinal ==
    [][/\ \A u \in Users :
             /\ usage'[u] >= usage[u]
             /\ usage'[u] = ConsumedBy(req', u)
       /\ \A r \in Req :
             /\ req'[r].consumed <= 1
             /\ req[r].consumed >= 1 => req'[r].consumed = req[r].consumed]_vars

C14_Witness ==
    \E r \in Req : /\ req[r].handler = "stream" /\ req[r].error = "Cancelled"
                   /\ req[r].consumed = 1
                   /\ usage[req[r].user] = ConsumedBy(req, req[r].user)

\* C15: under any consumer behaviour (reading to the end, or cancelling after
\* any number of fragments) a streaming request appends its turn to the chat
\* history at most once and consumes usage at most once.
C15_StreamAtMostOnce ==
    /\ \A r \in Req :
          req[r].handler = "stream" =>
             /\ req[r].appended <= 1
             /\ req[r].consumed <= 1 /\ Count(req[r].trace, GATE) <= 1
    /\ \A c \in ChatIds :
          Len(chats[c].history) = Len(InitChats[c].history) + AppendedTo(req, c)

C15_Witness ==
    \E r \in Req : /\ req[r].handler = "stream" /\ req[r].error = "Cancelled"
                   /\ req[r].pulled >= 1 /\ req[r].pulled < NFragments
                   /\ req[r].appended = 1

\* C16: under any interleaving of one user's concurrent question requests the
\* consumed usage never exceeds the quota, and no more requests start
\* generation than units were consumed.
C16_QuotaRespected ==
    \A u \in Users :
        /\ usage[u] <= Quota
        /\ Cardinality({r \in Req : req[r].user = u /\ GenerationCalled(req[r])})
              <= usage[u]

C16_Witness ==
    \E r1, r2 \in Req :
        /\ r1 < r2 /\ req[r1].user = req[r2].user
        /\ req[r1].error = "QuotaExceeded" /\ ~GenerationCalled(req[r1])
        /\ GenerationCalled(req[r2]) /\ usage[req[r2].user] = Quota

\* C17: the direct append adds exactly the supplied question/answer pair to
\* the chat and invokes neither resolution, a gate nor generation: usage and
\* the question requests are unchanged by it.
C17_DirectAppendBypasses ==
    [][response'.op = "add_question_and_answer" =>
          /\ usage' = usage /\ req' = req
          /\ chats' = [chats EXCEPT ![response'.chat_id].history =
                                       Append(@, "qa")]]_vars

C17_Witness ==
    /\ response.op = "add_question_and_answer" /\ response.status = 200
    /\ chats[response.chat_id].history # <<>>
    /\ chats[response.chat_id].history[Len(chats[response.chat_id].history)] = "qa"
    /\ \A u \in Users : usage[u] = 0

\* the brain's own model is not a known model: the gate returns no model
MissingModel(q) ==
    /\ q.route = "brain" /\ q.brain_id \in DOMAIN brains
    /\ \A i \in 1..Len(models) : models[i].name # brains[q.brain_id].model

\* C18: a failed assertion inside the handler's try block (missing brain,
\* missing model, an AssertionError raised while generate_answer is awaited)
\* is surfaced as 422; an HTTPException raised by a gate keeps its status (a
\* 403 stays a 403); any other exception (the ValueError of an unset
\* configuration path) leaves the handler uncaught and is never reported as
\* 422 or 403.
C18_ErrorMapping ==
    \A r \in Req :
        LET q == req[r] IN
        /\ q.raised = "AssertionError" => q.status = 422
        /\ q.raised = "HTTPException" =>
              /\ q.status \in {403, 429}
              /\ q.status = 403 <=> q.error = "Forbidden"
              /\ q.status = 429 <=> q.error = "QuotaExceeded"
        /\ q.raised \notin {None, "AssertionError", "HTTPException"} =>
              q.status \notin {200, 403, 422}
        /\ (q.pc # "idle" /\ ResolutionFails(q)) => q.status = 422
        /\ (PastGate(q) /\ MissingModel(q)) => q.status = 422
        /\ (PastGate(q) /\ AuthorizationFails(q) /\ q.consumed = 1) =>
              (q.status = 403 /\ q.raised = "HTTPException")
        /\ q.error = "ConfigurationMissing" =>
              (q.raised \in {"ValueError", "ConfigurationMissing"}
               /\ q.status \notin {403, 422})

C18_Witness ==
    \E r \in Req : /\ req[r].handler = "sync" /\ GenerationCalled(req[r])
                   /\ req[r].raised = "AssertionError" /\ req[r].status = 422

\* C19: in the streaming handler a request whose brain_id is unset fails with
\* 422 at assert brain_id, before any brain lookup, usage consumption,
\* authorization, configuration build or generation.
C19_StreamUnsetTargetTerminal ==
    \A r \in Req :
        (req[r].handler = "stream" /\ req[r].brain_id = None) =>
            /\ req[r].pc = "done" /\ req[r].status = 422
            /\ req[r].trace = <<"get_models">>
            /\ req[r].consumed = 0 /\ req[r].retrieval_config = NoConfig
            /\ req[r].brain = NoBrain

C19_Witness ==
    \E r \in Req : /\ req[r].handler = "stream" /\ req[r].brain_id = None
                   /\ req[r].status = 422 /\ usage[req[r].user] = 0

TypeOK ==
    /\ \A r \in Req : req[r].status \in {0, 200, 403, 422, 429, 500}
    /\ \A u \in Users : usage[u] \in 0..Quota

====
